---- MODULE Spec2Model ----
(***************************************************************************)
(* VaultArchive: the archive controller (src/lib/Archive.cpp), the entry   *)
(* model (src/lib/VarcEntry.cpp), the header codec (src/lib/Header.cpp)    *)
(* and the crypto state (src/lib/CryptoEngine.cpp) as a state machine.     *)
(*                                                                         *)
(* Bytes are cells <<tag, index, payload>>:                                *)
(*   <<"b", 0, v>>      an ordinary byte of value v (0..255)               *)
(*   <<"h", i, m>>      byte i of SHA-256(m)                               *)
(*   <<"e", i, t>>      byte i of AES-256-CBC(t.key, t.iv, t.plain)        *)
(*   <<"z", i, m>>      byte i of the gzip-framed DEFLATE stream of m      *)
(*   <<"r", i, k>>      byte i of the k-th output of the CSPRNG            *)
(*   <<"x", 0, c>>      the byte c after one of its bits was changed       *)
(* OpenSSL and zlib are third-party primitives: their outputs are kept     *)
(* symbolic, so two outputs are equal only when their inputs are equal.    *)
(* The input a symbolic byte carries is written in the short form Pack.    *)
(***************************************************************************)
EXTENDS Integers, Sequences, FiniteSets, TLC

VARIABLES m_filepath, m_header, m_entries, m_archiveData, m_modified,
          m_loaded, m_errorMessage, m_crypto, fs, rng, lastCall, lastOpen, repeated, dirty,
          nops

vars == <<m_filepath, m_header, m_entries, m_archiveData, m_modified,
          m_loaded, m_errorMessage, m_crypto, fs, rng, lastCall, lastOpen, repeated, dirty,
          nops>>

(***************************************************************************)
(* Program constants                                                       *)
(***************************************************************************)
SALT_SIZE == 32
IV_SIZE == 16
CHECKSUM_SIZE == 32
ENTRY_HEADER_SIZE == 26
GLOBAL_HEADER_SIZE == 64
AES_BLOCK_SIZE == 16
GZIP_OVERHEAD == 20
VARC_VERSION_MAJOR == 0
VARC_VERSION_MINOR == 3
ARCHIVE_ENCRYPTED == 1
ARCHIVE_COMPRESSED == 2
ARCHIVE_HAS_METADATA == 4
ENTRY_COMPRESSED == 1
ENTRY_ENCRYPTED == 2
FT_UNKNOWN == 0
FT_TEXT == 1
FT_BINARY == 2
FT_IMAGE == 3
FT_AUDIO == 4
FT_VIDEO == 5
FT_DOCUMENT == 6
FT_ARCHIVE == 7
NPOS == 2147483647

(***************************************************************************)
(* Bounds of the model                                                     *)
(***************************************************************************)
MaxOps == 3
MaxScenarioOps == 6
MaxEntries == 2
MaxGlobLen == 5

(***************************************************************************)
(* Cells and byte strings                                                  *)
(***************************************************************************)
Byte(v) == <<"b", 0, v>>

Bytes(s) == [i \in 1..Len(s) |-> Byte(s[i])]

IsRaw(c) == c[1] = "b"

Zeros(n) == [i \in 1..n |-> Byte(0)]

Slice(s, from, n) == [i \in 1..n |-> s[from + i]]

RECURSIVE BE(_, _)
BE(v, n) == IF n = 0 THEN <<>> ELSE Append(BE(v \div 256, n - 1), Byte(v % 256))

RECURSIVE BEValue(_)
BEValue(cells) ==
    IF Len(cells) = 0 THEN 0
    ELSE BEValue(SubSeq(cells, 1, Len(cells) - 1)) * 256 + cells[Len(cells)][3]

\* uint64_t values are kept as three limbs, a * 2^48 + b * 2^24 + c, with
\* a < 2^16 and b, c < 2^24, so that sums keep the 64-bit width
LIMB == 16777216

U64(cells) ==
    [a |-> BEValue(SubSeq(cells, 1, 2)),
     b |-> BEValue(SubSeq(cells, 3, 5)),
     c |-> BEValue(SubSeq(cells, 6, 8))]

\* the value of a uint64_t below 2^24
IsSmall(w) == w.a = 0 /\ w.b = 0
Small(w) == w.c

\* n + w in uint64_t arithmetic, for 0 <= n < 2^24: the sum modulo 2^64 and
\* whether it wrapped around
Add64(n, w) ==
    LET c == w.c + n
        b == w.b + c \div LIMB
        a == w.a + b \div LIMB
    IN  [sum |-> [a |-> a % 65536, b |-> b % LIMB, c |-> c % LIMB],
         wrapped |-> a >= 65536]

HasBit(f, b) == (f \div b) % 2 = 1
SetBit(f, b) == IF HasBit(f, b) THEN f ELSE f + b
ClearBit(f, b) == IF HasBit(f, b) THEN f - b ELSE f

(***************************************************************************)
(* Pack: a one-to-one short form of a byte string.  n equal bytes c become *)
(* <<"R", n, c>>, the whole n-byte output of a primitive with tag t and    *)
(* input p becomes <<"W", n, <<t, p>>>>, any other string stays as it is.  *)
(***************************************************************************)
IsConstant(s) == Len(s) > 0 /\ \A i \in 1..Len(s) : s[i] = s[1]

IsWhole(s) ==
    /\ Len(s) > 0
    /\ s[1][1] \in {"h", "e", "z", "r"}
    /\ \A i \in 1..Len(s) : s[i] = <<s[1][1], i, s[1][3]>>

Pack(s) ==
    IF IsConstant(s) THEN << <<"R", Len(s), s[1]>> >>
    ELSE IF IsWhole(s) THEN << <<"W", Len(s), <<s[1][1], s[1][3]>> >> >>
    ELSE s

Unpack(m) ==
    IF Len(m) = 1 /\ m[1][1] = "R" THEN [i \in 1..m[1][2] |-> m[1][3]]
    ELSE IF Len(m) = 1 /\ m[1][1] = "W"
         THEN [i \in 1..m[1][2] |-> <<m[1][3][1], i, m[1][3][2]>>]
    ELSE m

(***************************************************************************)
(* Third-party primitives (OpenSSL, zlib), symbolic                        *)
(***************************************************************************)
sha256(data) == LET m == Pack(data) IN [i \in 1..CHECKSUM_SIZE |-> <<"h", i, m>>]

deriveKey(password, salt) == [pw |-> password, salt |-> Pack(salt)]

CipherLen(n) == (n \div AES_BLOCK_SIZE + 1) * AES_BLOCK_SIZE

encrypt(crypto, plaintext) ==
    LET t == [key |-> crypto.key, iv |-> Pack(crypto.iv), plain |-> Pack(plaintext)]
    IN  [i \in 1..CipherLen(Len(plaintext)) |-> <<"e", i, t>>]

compress(data) ==
    LET m == Pack(data)
    IN  IF Len(data) = 0 THEN data
        ELSE [i \in 1..(Len(data) + GZIP_OVERHEAD) |-> <<"z", i, m>>]

(***************************************************************************)
(* FileType::detect                                                        *)
(***************************************************************************)
HasMagic(data, at, magic) ==
    /\ Len(data) >= at + Len(magic)
    /\ \A i \in 1..Len(magic) : data[at + i] = Byte(magic[i])

IsPrintable(c) ==
    /\ IsRaw(c)
    /\ \/ (c[3] >= 32 /\ c[3] <= 126)
       \/ c[3] \in {10, 13, 9}

Min(a, b) == IF a < b THEN a ELSE b

detect(data) ==
    LET size == Len(data)
        checkSize == Min(size, 256)
        printableCount == Cardinality({i \in 1..checkSize : IsPrintable(data[i])})
    IN  IF size < 4 THEN FT_UNKNOWN
        ELSE IF HasMagic(data, 0, <<137, 80, 78, 71, 13, 10, 26, 10>>) THEN FT_IMAGE
        ELSE IF \/ HasMagic(data, 0, <<71, 73, 70, 56, 55, 97>>)
                \/ HasMagic(data, 0, <<71, 73, 70, 56, 57, 97>>) THEN FT_IMAGE
        ELSE IF \/ HasMagic(data, 0, <<255, 216, 255>>)
                \/ HasMagic(data, 0, <<74, 70, 73, 70>>)
                \/ HasMagic(data, 0, <<69, 120, 105, 102>>) THEN FT_IMAGE
        ELSE IF /\ HasMagic(data, 0, <<82, 73, 70, 70>>)
                /\ size >= 12
                /\ HasMagic(data, 8, <<87, 69, 66, 80>>) THEN FT_IMAGE
        ELSE IF \/ HasMagic(data, 0, <<73, 68, 51>>)
                \/ HasMagic(data, 0, <<255, 251>>)
                \/ HasMagic(data, 0, <<255, 250>>)
                \/ HasMagic(data, 0, <<79, 103, 103, 83>>) THEN FT_AUDIO
        ELSE IF /\ HasMagic(data, 0, <<0, 0, 0>>)
                /\ size > 4
                /\ HasMagic(data, 4, <<102, 116, 121, 112>>) THEN FT_VIDEO
        ELSE IF HasMagic(data, 0, <<37, 80, 68, 70>>) THEN FT_DOCUMENT
        ELSE IF \/ HasMagic(data, 0, <<80, 75, 3, 4>>)
                \/ HasMagic(data, 0, <<80, 75, 5, 6>>) THEN FT_ARCHIVE
        ELSE IF 10 * printableCount > 9 * checkSize THEN FT_TEXT
        ELSE FT_BINARY

(***************************************************************************)
(* GlobalHeader                                                            *)
(***************************************************************************)
VARC_SIGNATURE == <<Byte(86), Byte(65), Byte(82), Byte(67)>>

GlobalHeader ==
    [signature |-> VARC_SIGNATURE,
     version   |-> VARC_VERSION_MAJOR * 256 + VARC_VERSION_MINOR,
     flags     |-> 0,
     fileCount |-> 0,
     salt      |-> Zeros(SALT_SIZE),
     iv        |-> Zeros(IV_SIZE),
     reserved  |-> Zeros(8)]

GlobalHeader_serialize(h) ==
    h.signature \o BE(h.version, 2) \o BE(h.flags, 2) \o BE(h.fileCount, 4)
        \o h.salt \o h.iv \o h.reserved

\* deserialize: [ok, header]; the signature is copied before it is compared.
\* The fields before `reserved` take 60 bytes, so the 8 reserved bytes are
\* data[60..67]: of a 64-byte vector the last 4 are read past its end, and
\* hold whatever byte g the heap has there.
GlobalHeader_deserialize(h, data, g) ==
    IF Len(data) < GLOBAL_HEADER_SIZE THEN [ok |-> FALSE, header |-> h]
    ELSE IF Slice(data, 0, 4) # VARC_SIGNATURE
         THEN [ok |-> FALSE, header |-> [h EXCEPT !.signature = Slice(data, 0, 4)]]
    ELSE [ok |-> TRUE,
          header |-> [signature |-> Slice(data, 0, 4),
                      version   |-> BEValue(Slice(data, 4, 2)),
                      flags     |-> BEValue(Slice(data, 6, 2)),
                      fileCount |-> BEValue(Slice(data, 8, 4)),
                      salt      |-> Slice(data, 12, SALT_SIZE),
                      iv        |-> Slice(data, 12 + SALT_SIZE, IV_SIZE),
                      reserved  |-> [i \in 1..8 |->
                                       IF 12 + SALT_SIZE + IV_SIZE + i <= Len(data)
                                       THEN data[12 + SALT_SIZE + IV_SIZE + i]
                                       ELSE Byte(g)]]]

GlobalHeader_isValid(h) == h.signature = VARC_SIGNATURE

GlobalHeader_isEncrypted(h) == HasBit(h.flags, ARCHIVE_ENCRYPTED)

(***************************************************************************)
(* EntryHeader                                                             *)
(***************************************************************************)
EntryHeader_serialize(eh) ==
    BE(eh.pathLength % 65536, 2) \o BE(eh.originalSize, 8) \o BE(eh.compressedSize, 8)
        \o BE(eh.fileType, 4) \o BE(eh.flags, 4)

EntryHeader_deserialize(data) ==
    [pathLength     |-> BEValue(Slice(data, 0, 2)),
     originalSize   |-> U64(Slice(data, 2, 8)),
     compressedSize |-> U64(Slice(data, 10, 8)),
     fileType       |-> BEValue(Slice(data, 18, 4)),
     flags          |-> BEValue(Slice(data, 22, 4))]

(***************************************************************************)
(* VarcEntry                                                               *)
(***************************************************************************)
\* VarcEntry(path, data, type = FILE)
VarcEntry_fromBytes(path, data) ==
    [path           |-> path,
     originalSize   |-> Len(data),
     compressedSize |-> Len(data),
     fileType       |-> IF Len(data) > 0 THEN detect(data) ELSE FT_UNKNOWN,
     flags          |-> 0,
     checksum       |-> sha256(data),
     data           |-> data]

\* VarcEntry(path, type, originalSize, fileType): no data, no checksum
VarcEntry_metadataOnly(path, originalSize, fileType) ==
    [path           |-> path,
     originalSize   |-> originalSize,
     compressedSize |-> originalSize,
     fileType       |-> fileType,
     flags          |-> 0,
     checksum       |-> <<>>,
     data           |-> <<>>]

VarcEntry_setData(e, data) ==
    [e EXCEPT !.data = data,
              !.originalSize = Len(data),
              !.compressedSize = Len(data),
              !.checksum = sha256(data),
              !.fileType = IF e.fileType = 0 /\ Len(data) > 0 THEN detect(data) ELSE e.fileType]

(***************************************************************************)
(* matchesPattern, the lambda of Archive::findEntries and                  *)
(* Archive::removeEntries.  Strings are sequences of character codes;      *)
(* the C++ indices i, j are 0-based.  std::string::npos is NPOS, larger    *)
(* than every length.                                                      *)
(***************************************************************************)
STAR == 42
QMARK == 63

\* std::string::find(ch, from)
FindChar(s, ch, from) ==
    LET hits == {p \in from..(Len(s) - 1) : s[p + 1] = ch}
    IN  IF hits = {} THEN NPOS ELSE CHOOSE p \in hits : \A q \in hits : p <= q

\* std::string::substr(pos, n), pos <= size
Substr(s, pos, n) == SubSeq(s, pos + 1, Min(Len(s), pos + n))

\* std::string::find(segment, from)
FindSeq(s, seg, from) ==
    LET hits == {p \in from..(Len(s) - Len(seg)) :
                    \A k \in 1..Len(seg) : s[p + k] = seg[k]}
    IN  IF hits = {} THEN NPOS ELSE CHOOSE p \in hits : \A q \in hits : p <= q

RECURSIVE matchLoop(_, _, _, _)
matchLoop(str, pattern, i, j) ==
    IF i < Len(str) /\ j < Len(pattern) THEN
        IF pattern[j + 1] = STAR THEN
            IF j + 1 < Len(pattern) THEN
                LET next == FindChar(pattern, STAR, j + 1)
                    segment == Substr(pattern, j + 1, next - j - 1)
                    pos == FindSeq(str, segment, i)
                IN  IF pos = NPOS THEN FALSE
                    ELSE matchLoop(str, pattern, pos + Len(segment), next)
            ELSE TRUE
        ELSE IF pattern[j + 1] = QMARK \/ pattern[j + 1] = str[i + 1]
             THEN matchLoop(str, pattern, i + 1, j + 1)
        ELSE FALSE
    ELSE i = Len(str) /\ j = Len(pattern)

matchesPattern(str, pattern) == matchLoop(str, pattern, 0, 0)

(***************************************************************************)
(* Inputs of the model                                                     *)
(***************************************************************************)
\* archive file names; the second lies in a directory that does not exist
FileNames == {"f", "nodir/g"}
CanCreate(p) == p = "f"
\* the name a client creates and opens archives under
CreateNames == {"f"}

Passwords == {"", "pw", "wrong"}
LockPasswords == {"", "pw"}

\* RAND_bytes: the k-th output of the CSPRNG, n bytes
Random(n, k) == [i \in 1..n |-> <<"r", i, k>>]

\* a byte read past the end of a heap buffer holds one of these values
HeapBytes == {0, 171}

\* entry paths "a", "b" and the content "hi"
PathSet == {<<97>>, <<98>>}
DataSet == {<<104, 105>>}

\* globs "*", "a"
PatternSet == {<<STAR>>, <<97>>}

\* CreateOptions: compress, encrypt, password
AddOptions ==
    {[compress |-> c, encrypt |-> FALSE, password |-> ""] : c \in BOOLEAN}
    \cup {[compress |-> c, encrypt |-> TRUE, password |-> pw] :
            c \in BOOLEAN, pw \in {"", "pw"}}

\* a file: its bytes, and for the properties the number of entries the
\* writer had in memory and whether a byte was changed after the write
NoFile == [exists |-> FALSE, bytes |-> <<>>, count |-> 0, tampered |-> FALSE]

(***************************************************************************)
(* CryptoEngine                                                            *)
(***************************************************************************)
NoKey == [pw |-> "", salt |-> <<>>]

CryptoEngine == [key |-> NoKey, iv |-> <<>>, initialized |-> FALSE]

CryptoEngine_isInitialized(c) == c.initialized /\ c.key # NoKey /\ c.iv # <<>>

\* initializeFromPassword; deriveKey throws on an empty password before any
\* member is assigned.  The IV is output k of the CSPRNG.
CryptoEngine_initializeFromPassword(c, password, salt, k) ==
    IF password = "" THEN [threw |-> TRUE, crypto |-> c]
    ELSE [threw |-> FALSE,
          crypto |-> [key |-> deriveKey(password, salt),
                      iv |-> Random(IV_SIZE, k),
                      initialized |-> TRUE]]

(***************************************************************************)
(* Archive: the controller state as a record, so that handlers compose     *)
(***************************************************************************)
Cur ==
    [filepath |-> m_filepath, header |-> m_header, entries |-> m_entries,
     archiveData |-> m_archiveData, modified |-> m_modified, loaded |-> m_loaded,
     errorMessage |-> m_errorMessage, crypto |-> m_crypto, fs |-> fs, rng |-> rng]

Commit(S) ==
    /\ m_filepath' = S.filepath
    /\ m_header' = S.header
    /\ m_entries' = S.entries
    /\ m_archiveData' = S.archiveData
    /\ m_modified' = S.modified
    /\ m_loaded' = S.loaded
    /\ m_errorMessage' = S.errorMessage
    /\ m_crypto' = S.crypto
    /\ fs' = S.fs
    /\ rng' = S.rng

\* updateHeader without the assignment of fileCount
updateHeader_keepsCount(h, entries) ==
    [h EXCEPT !.flags = IF Len(entries) = 0
                        THEN ClearBit(ClearBit(h.flags, ARCHIVE_ENCRYPTED), ARCHIVE_COMPRESSED)
                        ELSE h.flags]

\* Archive::updateHeader
updateHeader(h, entries) ==
    [h EXCEPT !.fileCount = Len(entries),
              !.flags = IF Len(entries) = 0
                        THEN ClearBit(ClearBit(h.flags, ARCHIVE_ENCRYPTED), ARCHIVE_COMPRESSED)
                        ELSE h.flags]

RECURSIVE SumSizes(_)
SumSizes(entries) ==
    IF Len(entries) = 0 THEN 0
    ELSE ENTRY_HEADER_SIZE + Len(entries[1].path) + entries[1].compressedSize
            + CHECKSUM_SIZE + SumSizes(Tail(entries))

\* the bytes the writer emits for one entry
EntryRecord(e) ==
    EntryHeader_serialize([pathLength |-> Len(e.path), originalSize |-> e.originalSize,
                           compressedSize |-> e.compressedSize, fileType |-> e.fileType,
                           flags |-> e.flags])
        \o Bytes(e.path) \o e.data \o e.checksum

RECURSIVE EntryRecords(_)
EntryRecords(entries) ==
    IF Len(entries) = 0 THEN <<>>
    ELSE EntryRecord(entries[1]) \o EntryRecords(Tail(entries))

\* Archive::writeArchive: the buffer is resized (old content kept, growth
\* zero-filled) and then written from offset 0
writeArchive(S) ==
    LET h == updateHeader(S.header, S.entries)
        totalSize == GLOBAL_HEADER_SIZE + SumSizes(S.entries)
        written == SubSeq(GlobalHeader_serialize(h), 1, GLOBAL_HEADER_SIZE)
                     \o EntryRecords(S.entries)
        buf == [i \in 1..totalSize |->
                    IF i <= Len(written) THEN written[i]
                    ELSE IF i <= Len(S.archiveData) THEN S.archiveData[i]
                    ELSE Byte(0)]
    IN  [S EXCEPT !.header = h, !.archiveData = buf]

\* writeArchive copies CHECKSUM_SIZE bytes from every checksum vector and
\* data.size() bytes of every entry into a buffer sized from
\* getCompressedSize(): it reads past a shorter checksum, and writes past
\* the buffer when the entries' data is longer in total than their
\* compressedSize
RECURSIVE SumData(_)
SumData(entries) ==
    IF Len(entries) = 0 THEN 0
    ELSE ENTRY_HEADER_SIZE + Len(entries[1].path) + Len(entries[1].data)
            + CHECKSUM_SIZE + SumData(Tail(entries))

writeArchiveUB(S) ==
    \/ \E i \in 1..Len(S.entries) : Len(S.entries[i].checksum) < CHECKSUM_SIZE
    \/ SumData(S.entries) > SumSizes(S.entries)

\* the entries as the copy of the checksums sees them when the bytes past a
\* short checksum vector are heap bytes g
HeapChecksums(S, g) ==
    [S EXCEPT !.entries =
        [i \in 1..Len(S.entries) |->
            [S.entries[i] EXCEPT !.checksum =
                [k \in 1..CHECKSUM_SIZE |->
                    IF k <= Len(S.entries[i].checksum) THEN S.entries[i].checksum[k]
                    ELSE Byte(g)]]]]

\* Archive::save
save(S, filepath) ==
    LET outputPath == IF filepath = "" THEN S.filepath ELSE filepath
        W == writeArchive(S)
    IN  IF outputPath = ""
        THEN [ok |-> FALSE, S |-> [S EXCEPT !.errorMessage = "No output path specified"]]
        ELSE IF ~CanCreate(outputPath)
        THEN [ok |-> FALSE, S |-> [W EXCEPT !.errorMessage = "Cannot create archive file"]]
        ELSE [ok |-> TRUE,
              S |-> [W EXCEPT !.fs[outputPath] =
                                   [exists |-> TRUE, bytes |-> W.archiveData,
                                    count |-> Len(S.entries), tampered |-> FALSE],
                              !.filepath = outputPath,
                              !.modified = FALSE]]

\* close without the save of a modified archive
close_withoutSave(S) ==
    [S EXCEPT !.filepath = "", !.entries = <<>>, !.archiveData = <<>>,
              !.header = GlobalHeader, !.modified = FALSE, !.loaded = FALSE,
              !.errorMessage = ""]

\* Archive::close
close(S) ==
    LET S1 == IF S.modified THEN save(S, "").S ELSE S
    IN  [S1 EXCEPT !.filepath = "", !.entries = <<>>, !.archiveData = <<>>,
                   !.header = GlobalHeader, !.modified = FALSE, !.loaded = FALSE,
                   !.errorMessage = ""]

\* whether close() wrote the archive
closeSaved(S) == S.modified /\ save(S, "").ok

\* the entry Archive::readArchive builds from one parsed record
parsedEntry(path, eh, checksum, data) ==
    LET e0 == VarcEntry_metadataOnly(path, eh.originalSize, eh.fileType)
        e1 == [e0 EXCEPT !.compressedSize = eh.compressedSize,
                         !.flags = eh.flags,
                         !.checksum = checksum]
    IN  VarcEntry_setData(e1, data)

\* the entry loop of Archive::readArchive, from record i at offset.  The
\* test of the data range adds offset and dataSize in 64 bits; when the sum
\* wraps around and passes the test, the vector is built from a range whose
\* end lies before its start, which is undefined (ub).
RECURSIVE parseEntries(_, _, _, _, _)
parseEntries(buf, offset, i, fileCount, acc) ==
    IF i >= fileCount THEN [ok |-> TRUE, ub |-> FALSE, entries |-> acc, err |-> ""]
    ELSE IF offset + ENTRY_HEADER_SIZE > Len(buf)
    THEN [ok |-> FALSE, ub |-> FALSE, entries |-> acc, err |-> "Unexpected end of archive"]
    ELSE
      LET eh == EntryHeader_deserialize(Slice(buf, offset, ENTRY_HEADER_SIZE))
          o1 == offset + ENTRY_HEADER_SIZE
          o2 == o1 + eh.pathLength
          end == Add64(o2, eh.compressedSize)
      IN  IF o2 > Len(buf)
          THEN [ok |-> FALSE, ub |-> FALSE, entries |-> acc,
                err |-> "Unexpected end of archive (path)"]
          ELSE IF ~IsSmall(end.sum) \/ Small(end.sum) > Len(buf)
          THEN [ok |-> FALSE, ub |-> FALSE, entries |-> acc,
                err |-> "Unexpected end of archive (data)"]
          ELSE IF end.wrapped
          THEN [ok |-> FALSE, ub |-> TRUE, entries |-> acc, err |-> ""]
          ELSE
            LET o3 == Small(end.sum)
            IN  IF o3 + CHECKSUM_SIZE > Len(buf)
                THEN [ok |-> FALSE, ub |-> FALSE, entries |-> acc,
                      err |-> "Unexpected end of archive (checksum)"]
                ELSE
                  LET path == [k \in 1..eh.pathLength |-> buf[o1 + k][3]]
                      data == Slice(buf, o2, o3 - o2)
                      checksum == Slice(buf, o3, CHECKSUM_SIZE)
                  IN  parseEntries(buf, o3 + CHECKSUM_SIZE, i + 1, fileCount,
                                   Append(acc, parsedEntry(path, eh, checksum, data)))

\* an ENCRYPTED header with an empty password stops the parse
passwordRequired(h, password) == GlobalHeader_isEncrypted(h) /\ password = ""

\* Archive::readArchive: [ok, ub, S]; g is the byte read past the end of the
\* header buffer, ub tells that the entry loop ran into undefined behaviour
readArchive(S, password, g) ==
    LET D == GlobalHeader_deserialize(S.header,
                                      Slice(S.archiveData, 0, GLOBAL_HEADER_SIZE), g)
        H == [S EXCEPT !.header = D.header]
        C == CryptoEngine_initializeFromPassword(S.crypto, password, D.header.salt,
                                                 S.rng + 1)
        K == IF GlobalHeader_isEncrypted(D.header)
             THEN [H EXCEPT !.crypto = C.crypto, !.rng = S.rng + 1] ELSE H
        P == parseEntries(S.archiveData, GLOBAL_HEADER_SIZE, 0, D.header.fileCount, <<>>)
    IN  IF Len(S.archiveData) < GLOBAL_HEADER_SIZE
        THEN [ok |-> FALSE, ub |-> FALSE,
              S |-> [S EXCEPT !.errorMessage = "Archive file too small"]]
        ELSE IF ~D.ok
        THEN [ok |-> FALSE, ub |-> FALSE,
              S |-> [H EXCEPT !.errorMessage = "Invalid archive header"]]
        ELSE IF ~GlobalHeader_isValid(D.header)
        THEN [ok |-> FALSE, ub |-> FALSE,
              S |-> [H EXCEPT !.errorMessage = "Invalid archive signature"]]
        ELSE IF passwordRequired(D.header, password)
        THEN [ok |-> FALSE, ub |-> FALSE,
              S |-> [H EXCEPT !.errorMessage = "Password required for encrypted archive"]]
        ELSE IF GlobalHeader_isEncrypted(D.header) /\ C.threw
        THEN [ok |-> FALSE, ub |-> FALSE,
              S |-> [H EXCEPT !.errorMessage = "Failed to initialize encryption"]]
        ELSE IF ~P.ok
        THEN [ok |-> FALSE, ub |-> P.ub,
              S |-> [K EXCEPT !.entries = P.entries, !.errorMessage = P.err]]
        ELSE [ok |-> TRUE, ub |-> FALSE, S |-> [K EXCEPT !.entries = P.entries]]

\* open with m_loaded set and m_modified cleared whatever readArchive returns
open_loadsOnFailure(S, filepath, password, g) ==
    LET S1 == [close(S) EXCEPT !.filepath = filepath, !.archiveData = <<>>]
        S2 == [S1 EXCEPT !.archiveData = S1.fs[filepath].bytes]
        R == readArchive(S2, password, g)
    IN  IF ~S1.fs[filepath].exists
        THEN [ok |-> FALSE, ub |-> FALSE,
              S |-> [S1 EXCEPT !.errorMessage = "Cannot open archive file"]]
        ELSE [ok |-> R.ok, ub |-> R.ub,
              S |-> [R.S EXCEPT !.loaded = TRUE, !.modified = FALSE]]

\* Archive::open: [ok, ub, S]
open(S, filepath, password, g) ==
    LET S1 == [close(S) EXCEPT !.filepath = filepath, !.archiveData = <<>>]
        S2 == [S1 EXCEPT !.archiveData = S1.fs[filepath].bytes]
        R == readArchive(S2, password, g)
    IN  IF ~S1.fs[filepath].exists
        THEN [ok |-> FALSE, ub |-> FALSE,
              S |-> [S1 EXCEPT !.errorMessage = "Cannot open archive file"]]
        ELSE IF ~R.ok THEN [ok |-> FALSE, ub |-> R.ub, S |-> R.S]
        ELSE [ok |-> TRUE, ub |-> FALSE,
              S |-> [R.S EXCEPT !.loaded = TRUE, !.modified = FALSE]]

\* create without the assignment of m_modified
create_notModified(S, filepath) ==
    [close(S) EXCEPT !.filepath = filepath, !.header = GlobalHeader,
                     !.entries = <<>>, !.loaded = TRUE]

\* Archive::create
create(S, filepath) ==
    [close(S) EXCEPT !.filepath = filepath, !.header = GlobalHeader,
                     !.entries = <<>>, !.modified = TRUE, !.loaded = TRUE]

\* Archive::processEntry; the CSPRNG is drawn for the salt, the cached IV and
\* the header IV, in this order
processEntry(S, entry, options) ==
    LET doEncrypt == options.encrypt /\ options.password # ""
        needInit == doEncrypt /\ ~CryptoEngine_isInitialized(S.crypto)
        salt == Random(SALT_SIZE, S.rng + 1)
        crypto == IF needInit
                  THEN CryptoEngine_initializeFromPassword(S.crypto, options.password,
                                                           salt, S.rng + 2).crypto
                  ELSE S.crypto
        header == IF needInit
                  THEN [S.header EXCEPT !.salt = salt,
                                        !.iv = Random(IV_SIZE, S.rng + 3),
                                        !.flags = SetBit(S.header.flags, ARCHIVE_ENCRYPTED)]
                  ELSE S.header
        e1 == IF doEncrypt
              THEN LET x == VarcEntry_setData(entry, encrypt(crypto, entry.data))
                   IN  [x EXCEPT !.flags = SetBit(x.flags, ENTRY_ENCRYPTED)]
              ELSE entry
        e2 == IF options.compress
              THEN LET z == compress(e1.data)
                       y == VarcEntry_setData(e1, z)
                   IN  [y EXCEPT !.compressedSize = Len(z),
                                 !.flags = SetBit(y.flags, ENTRY_COMPRESSED)]
              ELSE e1
    IN  [S EXCEPT !.crypto = crypto, !.header = header,
                  !.rng = IF needInit THEN S.rng + 3 ELSE S.rng,
                  !.entries = Append(S.entries, e2), !.modified = TRUE]

\* Archive::addVirtualFile
addVirtualFile(S, virtualPath, data, options) ==
    IF ~S.loaded
    THEN [ok |-> FALSE, S |-> [S EXCEPT !.errorMessage = "Archive not open"]]
    ELSE [ok |-> TRUE,
          S |-> processEntry(S, VarcEntry_fromBytes(virtualPath, Bytes(data)), options)]

\* Archive::addEntry
addEntry(S, entry, options) ==
    IF ~S.loaded
    THEN [ok |-> FALSE, S |-> [S EXCEPT !.errorMessage = "Archive not open"]]
    ELSE [ok |-> TRUE, S |-> processEntry(S, entry, options)]

\* the entries a caller hands to addEntry: one built from the bytes "hi",
\* one built from path, size 5 and file type only
CallerEntries ==
    {VarcEntry_fromBytes(<<98>>, Bytes(<<104, 105>>)),
     VarcEntry_metadataOnly(<<97>>, 5, FT_TEXT)}

\* the files of the host that addFile can read: "b" holds "hi", no other
\* path can be opened
ReadablePaths == {<<98>>}

FileContent(path) == <<104, 105>>

FileOptions ==
    {[compress |-> FALSE, encrypt |-> FALSE, password |-> ""],
     [compress |-> FALSE, encrypt |-> TRUE, password |-> "pw"]}

\* Archive::createEntryFromPath: std::runtime_error when the file cannot
\* be opened
createEntryFromPath(filepath) ==
    IF filepath \notin ReadablePaths
    THEN [threw |-> TRUE, entry |-> VarcEntry_fromBytes(filepath, <<>>)]
    ELSE [threw |-> FALSE,
          entry |-> VarcEntry_fromBytes(filepath, Bytes(FileContent(filepath)))]

\* Archive::addFile: [ok, threw, S]; the exception of createEntryFromPath
\* is not caught
addFile(S, filepath, options) ==
    LET E == createEntryFromPath(filepath)
    IN  IF ~S.loaded
        THEN [ok |-> FALSE, threw |-> FALSE,
              S |-> [S EXCEPT !.errorMessage = "Archive not open"]]
        ELSE IF E.threw THEN [ok |-> FALSE, threw |-> TRUE, S |-> S]
        ELSE [ok |-> TRUE, threw |-> FALSE, S |-> processEntry(S, E.entry, options)]

\* Archive::findEntry: index of the first entry with the path, 0 if none
findEntry(entries, path) ==
    LET hits == {i \in 1..Len(entries) : entries[i].path = path}
    IN  IF hits = {} THEN 0 ELSE CHOOSE i \in hits : \A k \in hits : i <= k

\* Archive::getEntryData
getEntryData(S, path) ==
    IF findEntry(S.entries, path) = 0 THEN <<>>
    ELSE S.entries[findEntry(S.entries, path)].data

\* the output directory of an extraction, by entry path: empty, or with a
\* file "o" already at every output path
OutputDirs ==
    {[p \in PathSet |-> [exists |-> FALSE, bytes |-> <<>>]],
     [p \in PathSet |-> [exists |-> TRUE, bytes |-> Bytes(<<111>>)]]}

\* Archive::extractFile: [ok, S, dir]; the output path is outputDir/path
extractFile(S, dir, path) ==
    LET i == findEntry(S.entries, path)
    IN  IF i = 0
        THEN [ok |-> FALSE, dir |-> dir,
              S |-> [S EXCEPT !.errorMessage = "Entry not found"]]
        ELSE IF Len(S.entries[i].data) = 0 /\ S.entries[i].originalSize > 0
        THEN [ok |-> FALSE, dir |-> dir,
              S |-> [S EXCEPT !.errorMessage = "Empty entry data"]]
        ELSE [ok |-> TRUE, S |-> S,
              dir |-> [dir EXCEPT ![path] = [exists |-> TRUE,
                                             bytes |-> S.entries[i].data]]]

\* the entry loop of Archive::extractAll, from entry i
RECURSIVE extractLoop(_, _, _)
extractLoop(S, dir, i) ==
    IF i > Len(S.entries) THEN [ok |-> TRUE, S |-> S, dir |-> dir]
    ELSE LET R == extractFile(S, dir, S.entries[i].path)
             rest == extractLoop(R.S, R.dir, i + 1)
         IN  [ok |-> R.ok /\ rest.ok, S |-> rest.S, dir |-> rest.dir]

\* Archive::extractAll with an empty filter: [ok, S, dir]; options.overwrite
\* is not read
extractAll(S, dir, password, options) ==
    LET C == CryptoEngine_initializeFromPassword(S.crypto, password, S.header.salt,
                                                 S.rng + 1)
    IN  IF ~GlobalHeader_isEncrypted(S.header) THEN extractLoop(S, dir, 1)
        ELSE IF password = ""
        THEN [ok |-> FALSE, dir |-> dir,
              S |-> [S EXCEPT !.errorMessage = "Password required for encrypted archive"]]
        ELSE extractLoop([S EXCEPT !.crypto = C.crypto, !.rng = S.rng + 1], dir, 1)

\* Archive::findEntries
findEntries(S, pattern) ==
    SelectSeq(S.entries, LAMBDA e : matchesPattern(e.path, pattern))

\* Archive::removeEntry
removeEntry(S, path) ==
    LET i == findEntry(S.entries, path)
    IN  IF i = 0
        THEN [ok |-> FALSE, S |-> [S EXCEPT !.errorMessage = "Entry not found"]]
        ELSE [ok |-> TRUE,
              S |-> [S EXCEPT !.entries = SubSeq(S.entries, 1, i - 1)
                                            \o SubSeq(S.entries, i + 1, Len(S.entries)),
                              !.modified = TRUE]]

\* removeEntries with m_modified set even when nothing matched
removeEntries_alwaysModified(S, pattern) ==
    LET kept == SelectSeq(S.entries, LAMBDA e : ~matchesPattern(e.path, pattern))
    IN  [count |-> Len(S.entries) - Len(kept),
         S |-> [S EXCEPT !.entries = kept, !.modified = TRUE]]

\* Archive::removeEntries: [count, S]
removeEntries(S, pattern) ==
    LET kept == SelectSeq(S.entries, LAMBDA e : ~matchesPattern(e.path, pattern))
        count == Len(S.entries) - Len(kept)
    IN  [count |-> count,
         S |-> [S EXCEPT !.entries = kept,
                         !.modified = IF count > 0 THEN TRUE ELSE S.modified]]

\* Archive::clearEntries
clearEntries(S) == [S EXCEPT !.entries = <<>>, !.modified = TRUE]

\* verify with m_modified set on success
verify_marksModified(S, password) ==
    IF ~GlobalHeader_isValid(S.header)
    THEN [ok |-> FALSE, S |-> [S EXCEPT !.errorMessage = "Invalid archive header"]]
    ELSE IF passwordRequired(S.header, password)
    THEN [ok |-> FALSE,
          S |-> [S EXCEPT !.errorMessage = "Password required for encrypted archive"]]
    ELSE [ok |-> TRUE, S |-> [S EXCEPT !.modified = TRUE]]

\* Archive::verify with Archive::verifyEntry, which only looks the entry up
verify(S, password) ==
    LET C == CryptoEngine_initializeFromPassword(S.crypto, password, S.header.salt,
                                                 S.rng + 1)
    IN  IF ~GlobalHeader_isValid(S.header)
        THEN [ok |-> FALSE, S |-> [S EXCEPT !.errorMessage = "Invalid archive header"]]
        ELSE IF passwordRequired(S.header, password)
        THEN [ok |-> FALSE,
              S |-> [S EXCEPT !.errorMessage = "Password required for encrypted archive"]]
        ELSE LET K == IF GlobalHeader_isEncrypted(S.header)
                      THEN [S EXCEPT !.crypto = C.crypto, !.rng = S.rng + 1] ELSE S
                 missing == {i \in 1..Len(S.entries) :
                                findEntry(S.entries, S.entries[i].path) = 0}
             IN  IF missing # {}
                 THEN [ok |-> FALSE, S |-> [K EXCEPT !.errorMessage = "Entry not found"]]
                 ELSE [ok |-> TRUE, S |-> K]

\* Archive::lock; the CSPRNG is drawn for the salt, the header IV and the
\* cached IV, in this order
lock(S, password) ==
    IF password = ""
    THEN [ok |-> FALSE, S |-> [S EXCEPT !.errorMessage = "Password cannot be empty"]]
    ELSE LET salt == Random(SALT_SIZE, S.rng + 1)
         IN  [ok |-> TRUE,
              S |-> [S EXCEPT
                  !.rng = S.rng + 3,
                  !.header = [S.header EXCEPT
                                 !.salt = salt,
                                 !.iv = Random(IV_SIZE, S.rng + 2),
                                 !.flags = SetBit(S.header.flags, ARCHIVE_ENCRYPTED)],
                  !.crypto = CryptoEngine_initializeFromPassword(S.crypto, password,
                                                                 salt, S.rng + 3).crypto,
                  !.entries = [i \in 1..Len(S.entries) |->
                                 [S.entries[i] EXCEPT
                                     !.flags = SetBit(S.entries[i].flags, ENTRY_ENCRYPTED)]],
                  !.modified = TRUE]]

\* unlock with the flags cleared before the key is derived
unlock_clearsBeforeDerive(S, password) ==
    LET C == CryptoEngine_initializeFromPassword(S.crypto, password, S.header.salt,
                                                 S.rng + 1)
        U == [S EXCEPT
                  !.header = [S.header EXCEPT
                                 !.flags = ClearBit(S.header.flags, ARCHIVE_ENCRYPTED)],
                  !.entries = [i \in 1..Len(S.entries) |->
                                 [S.entries[i] EXCEPT
                                     !.flags = ClearBit(S.entries[i].flags, ENTRY_ENCRYPTED)]],
                  !.modified = TRUE]
    IN  IF ~GlobalHeader_isEncrypted(S.header)
        THEN [ok |-> FALSE, S |-> [S EXCEPT !.errorMessage = "Archive is not encrypted"]]
        ELSE IF C.threw
        THEN [ok |-> FALSE,
              S |-> [U EXCEPT !.errorMessage = "Incorrect password or decryption failed"]]
        ELSE [ok |-> TRUE, S |-> [U EXCEPT !.crypto = C.crypto, !.rng = S.rng + 1]]

\* Archive::unlock
unlock(S, password) ==
    LET C == CryptoEngine_initializeFromPassword(S.crypto, password, S.header.salt,
                                                 S.rng + 1)
    IN  IF ~GlobalHeader_isEncrypted(S.header)
        THEN [ok |-> FALSE, S |-> [S EXCEPT !.errorMessage = "Archive is not encrypted"]]
        ELSE IF C.threw
        THEN [ok |-> FALSE,
              S |-> [S EXCEPT !.errorMessage = "Incorrect password or decryption failed"]]
        ELSE [ok |-> TRUE,
              S |-> [S EXCEPT
                  !.crypto = C.crypto,
                  !.rng = S.rng + 1,
                  !.header = [S.header EXCEPT
                                 !.flags = ClearBit(S.header.flags, ARCHIVE_ENCRYPTED)],
                  !.entries = [i \in 1..Len(S.entries) |->
                                 [S.entries[i] EXCEPT
                                     !.flags = ClearBit(S.entries[i].flags, ENTRY_ENCRYPTED)]],
                  !.modified = TRUE]]

\* Archive::changePassword: [ok, threw, S]; deriveKey throws out of the handler
changePassword(S, oldPassword, newPassword) ==
    LET newSalt == Random(SALT_SIZE, S.rng + 1)
        H == [S EXCEPT !.rng = S.rng + 2,
                       !.header = [S.header EXCEPT !.salt = newSalt,
                                                   !.iv = Random(IV_SIZE, S.rng + 2)]]
        C == CryptoEngine_initializeFromPassword(S.crypto, newPassword, newSalt,
                                                 S.rng + 3)
    IN  IF ~GlobalHeader_isEncrypted(S.header)
        THEN [ok |-> FALSE, threw |-> FALSE,
              S |-> [S EXCEPT !.errorMessage = "Archive is not encrypted"]]
        ELSE IF oldPassword = "" THEN [ok |-> FALSE, threw |-> TRUE, S |-> S]
        ELSE IF C.threw THEN [ok |-> FALSE, threw |-> TRUE, S |-> H]
        ELSE [ok |-> TRUE, threw |-> FALSE,
              S |-> [H EXCEPT !.crypto = C.crypto, !.rng = S.rng + 3,
                              !.modified = TRUE]]

\* Archive::setMetadata
setMetadata(S) ==
    [S EXCEPT !.header = [S.header EXCEPT
                             !.flags = SetBit(S.header.flags, ARCHIVE_HAS_METADATA)],
              !.modified = TRUE]

(***************************************************************************)
(* The calls of a client, one action per public operation                  *)
(***************************************************************************)
Call(op, file, pw, path, ok, threw, out) ==
    [op |-> op, file |-> file, pw |-> pw, path |-> path, ok |-> ok,
     threw |-> threw, out |-> out]

\* dirty: a successful mutation has happened since the last successful
\* save or open
\* lastOpen: the password and the result of the last open call
\* repeated: the call has the operation and the password of the call before it
Step(S, call, d) ==
    /\ Commit(S)
    /\ lastCall' = call
    /\ lastOpen' = IF call.op = "open" THEN [pw |-> call.pw, ok |-> call.ok] ELSE lastOpen
    /\ repeated' = (call.op = lastCall.op /\ call.pw = lastCall.pw)
    /\ dirty' = d
    /\ nops' = nops + 1

Init ==
    /\ m_filepath = ""
    /\ m_header = GlobalHeader
    /\ m_entries = <<>>
    /\ m_archiveData = <<>>
    /\ m_modified = FALSE
    /\ m_loaded = FALSE
    /\ m_errorMessage = ""
    /\ m_crypto = CryptoEngine
    /\ fs = [f \in FileNames |-> NoFile]
    /\ rng = 0
    /\ lastCall = Call("new", "", "", <<>>, TRUE, FALSE, <<>>)
    /\ lastOpen = [pw |-> "", ok |-> FALSE]
    /\ repeated = FALSE
    /\ dirty = FALSE
    /\ nops = 0

afterClose(S) == IF closeSaved(S) THEN FALSE ELSE dirty

Create(f) ==
    Step(create(Cur, f), Call("create", f, "", <<>>, TRUE, FALSE, <<>>), TRUE)

\* what building a vector from a range that ends before its start does: the
\* constructor throws std::length_error, which no handler catches, or the
\* process is ended
RangeOutcomes == {"length_error", "terminate"}

Open(f, pw) ==
    \E g \in HeapBytes :
        LET R == open(Cur, f, pw, g)
        IN  IF R.ub
            THEN \E u \in RangeOutcomes :
                    Step(R.S, Call("open", f, pw, <<>>, FALSE, TRUE, <<u>>),
                         afterClose(Cur))
            ELSE Step(R.S, Call("open", f, pw, <<>>, R.ok, FALSE, <<>>),
                      IF R.ok THEN FALSE ELSE afterClose(Cur))

Close ==
    Step(close(Cur), Call("close", "", "", <<>>, TRUE, FALSE, <<>>), afterClose(Cur))

\* save; when writeArchive leaves its buffers the process is ended, or the
\* copy goes on with the heap bytes it finds
Save(f) ==
    IF (f # "" \/ m_filepath # "") /\ writeArchiveUB(Cur)
    THEN \/ Step(Cur, Call("save", f, "", <<>>, FALSE, TRUE, <<"terminate">>), dirty)
         \/ \E g \in HeapBytes :
               LET R == save(HeapChecksums(Cur, g), f)
               IN  Step([R.S EXCEPT !.entries = m_entries],
                        Call("save", f, "", <<>>, R.ok, FALSE, <<>>),
                        IF R.ok THEN FALSE ELSE dirty)
    ELSE LET R == save(Cur, f)
         IN  Step(R.S, Call("save", f, "", <<>>, R.ok, FALSE, <<>>),
                  IF R.ok THEN FALSE ELSE dirty)

ExtractAll(dir, pw, options) ==
    LET R == extractAll(Cur, dir, pw, options)
    IN  Step(R.S, Call("extractAll", "", pw, <<>>, R.ok, FALSE,
                       <<options.overwrite, dir, R.dir>>), dirty)

AddEntry(entry, options) ==
    /\ Len(m_entries) < MaxEntries
    /\ LET R == addEntry(Cur, entry, options)
       IN  Step(R.S, Call("addEntry", "", options.password, entry.path, R.ok, FALSE,
                          <<options.compress, options.encrypt>>),
                IF R.ok THEN TRUE ELSE dirty)

AddVirtual(path, data, options) ==
    /\ Len(m_entries) < MaxEntries
    /\ LET R == addVirtualFile(Cur, path, data, options)
       IN  Step(R.S, Call("addVirtual", "", options.password, path, R.ok, FALSE,
                          <<options.compress, options.encrypt>>),
                IF R.ok THEN TRUE ELSE dirty)

AddFile(path, options) ==
    /\ Len(m_entries) < MaxEntries
    /\ LET R == addFile(Cur, path, options)
       IN  Step(R.S, Call("addFile", "", options.password, path, R.ok, R.threw,
                          <<options.compress, options.encrypt>>),
                IF R.ok THEN TRUE ELSE dirty)

RemoveEntry(path) ==
    LET R == removeEntry(Cur, path)
    IN  Step(R.S, Call("removeEntry", "", "", path, R.ok, FALSE, <<>>),
             IF R.ok THEN TRUE ELSE dirty)

RemoveEntries(pattern) ==
    LET R == removeEntries(Cur, pattern)
    IN  Step(R.S, Call("removeEntries", "", "", pattern, TRUE, FALSE, <<R.count>>),
             IF R.count > 0 THEN TRUE ELSE dirty)

ClearEntries ==
    Step(clearEntries(Cur), Call("clearEntries", "", "", <<>>, TRUE, FALSE, <<>>), TRUE)

GetEntryData(path) ==
    Step(Cur, Call("getEntryData", "", "", path, TRUE, FALSE, getEntryData(Cur, path)),
         dirty)

FindEntries(pattern) ==
    LET found == findEntries(Cur, pattern)
    IN  Step(Cur, Call("findEntries", "", "", pattern, TRUE, FALSE,
                       [i \in 1..Len(found) |-> found[i].path]),
             dirty)

Verify(pw) ==
    LET R == verify(Cur, pw)
    IN  Step(R.S, Call("verify", "", pw, <<>>, R.ok, FALSE, <<>>), dirty)

Lock(pw) ==
    LET R == lock(Cur, pw)
    IN  Step(R.S, Call("lock", "", pw, <<>>, R.ok, FALSE, <<>>),
             IF R.ok THEN TRUE ELSE dirty)

Unlock(pw) ==
    LET R == unlock(Cur, pw)
    IN  Step(R.S, Call("unlock", "", pw, <<>>, R.ok, FALSE, <<>>),
             IF R.ok THEN TRUE ELSE dirty)

ChangePassword(old, new) ==
    LET R == changePassword(Cur, old, new)
    IN  Step(R.S, Call("changePassword", "", old, <<>>, R.ok, R.threw, <<new>>),
             IF R.ok THEN TRUE ELSE dirty)

SetMetadata ==
    Step(setMetadata(Cur), Call("setMetadata", "", "", <<>>, TRUE, FALSE, <<>>), TRUE)

Next ==
    /\ nops < MaxOps
    /\ \/ \E f \in CreateNames : Create(f)
       \/ \E f \in CreateNames, pw \in Passwords : Open(f, pw)
       \/ Close
       \/ \E f \in FileNames \cup {""} : Save(f)
       \/ \E path \in PathSet, data \in DataSet, options \in AddOptions :
               AddVirtual(path, data, options)
       \/ \E path \in PathSet, options \in FileOptions : AddFile(path, options)
       \/ \E path \in PathSet : RemoveEntry(path)
       \/ \E pattern \in PatternSet : RemoveEntries(pattern)
       \/ ClearEntries
       \/ \E path \in PathSet : GetEntryData(path)
       \/ \E pattern \in PatternSet : FindEntries(pattern)
       \/ \E pw \in Passwords : Verify(pw)
       \/ \E pw \in LockPasswords : Lock(pw)
       \/ \E pw \in LockPasswords : Unlock(pw)
       \/ \E old \in LockPasswords, new \in LockPasswords : ChangePassword(old, new)
       \/ SetMetadata

Spec == Init /\ [][Next]_vars

(***************************************************************************)
(* A client that builds an archive, saves it, opens it again and reads it  *)
(***************************************************************************)
ScriptOptions ==
    {[compress |-> c, encrypt |-> e, password |-> "pw"] : c \in BOOLEAN, e \in BOOLEAN}

NextRT ==
    /\ nops < MaxScenarioOps
    /\ \/ lastCall.op = "new" /\ Create("f")
       \/ /\ lastCall.op \in {"create", "addVirtual", "removeEntry"}
          /\ \E path \in PathSet, data \in DataSet, options \in ScriptOptions :
                AddVirtual(path, data, options)
       \/ /\ lastCall.op \in {"addVirtual", "removeEntry"}
          /\ \E path \in PathSet : RemoveEntry(path)
       \/ /\ lastCall.op \in {"create", "addVirtual", "removeEntry"}
          /\ Save("f")
       \/ /\ lastCall.op = "save"
          /\ \E pw \in {"pw", "wrong"} : Open("f", pw)
       \/ /\ lastCall.op \in {"open", "getEntryData"}
          /\ \E path \in PathSet : GetEntryData(path)

SpecRT == Init /\ [][NextRT]_vars

(***************************************************************************)
(* A client that builds an archive, saves it, opens it again and verifies  *)
(* it, with a possible fault of the storage between save and open: one     *)
(* byte of the first entry's stored data is changed                        *)
(***************************************************************************)
\* offset and length of the stored data of the first record of a file
DataRegion(bytes) ==
    LET eh == EntryHeader_deserialize(Slice(bytes, GLOBAL_HEADER_SIZE, ENTRY_HEADER_SIZE))
    IN  [offset |-> GLOBAL_HEADER_SIZE + ENTRY_HEADER_SIZE + eh.pathLength,
         size |-> Small(eh.compressedSize)]

Tamper(f, last) ==
    /\ fs[f].exists
    /\ fs[f].count > 0
    /\ DataRegion(fs[f].bytes).size > 0
    /\ LET R == DataRegion(fs[f].bytes)
           at == R.offset + (IF last THEN R.size ELSE 1)
       IN  fs' = [fs EXCEPT ![f].bytes[at] = <<"x", 0, fs[f].bytes[at]>>,
                            ![f].tampered = TRUE]
    /\ lastCall' = Call("tamper", f, "", <<>>, TRUE, FALSE, <<>>)
    /\ repeated' = FALSE
    /\ nops' = nops + 1
    /\ UNCHANGED <<m_filepath, m_header, m_entries, m_archiveData, m_modified,
                   m_loaded, m_errorMessage, m_crypto, rng, dirty, lastOpen>>

NextVerify ==
    /\ nops < MaxScenarioOps
    /\ \/ lastCall.op = "new" /\ Create("f")
       \/ /\ lastCall.op \in {"create", "addVirtual"}
          /\ \E path \in PathSet, data \in DataSet, options \in ScriptOptions :
                AddVirtual(path, data, options)
       \/ lastCall.op = "addVirtual" /\ Save("f")
       \/ lastCall.op = "save" /\ \E last \in BOOLEAN : Tamper("f", last)
       \/ lastCall.op \in {"save", "tamper"} /\ Open("f", "pw")
       \/ lastCall.op \in {"open", "verify"} /\ \E pw \in {"", "pw"} : Verify(pw)

SpecVerify == Init /\ [][NextVerify]_vars

(***************************************************************************)
(* findEntries over entry lists with arbitrary paths                       *)
(***************************************************************************)
\* the characters ".", "t", "x"
GlobAlphabet == {46, 116, 120}

RECURSIVE StringsUpTo(_)
StringsUpTo(n) ==
    IF n = 0 THEN {<<>>}
    ELSE StringsUpTo(n - 1)
            \cup {Append(w, c) : w \in {v \in StringsUpTo(n - 1) : Len(v) = n - 1},
                                 c \in GlobAlphabet}

DotTxt == <<46, 116, 120, 116>>
StarDotTxt == <<STAR>> \o DotTxt

\* "*.txt", "*", "?txt", "*t*"
GlobPatterns == {StarDotTxt, <<STAR>>, <<QMARK, 116, 120, 116>>, <<STAR, 116, STAR>>}

\* the entry lists: one path of up to MaxGlobLen characters, alone or
\* followed by "x.txt"
GlobLists ==
    {<<p>> : p \in StringsUpTo(MaxGlobLen)}
    \cup {<<p, <<120>> \o DotTxt>> : p \in StringsUpTo(MaxGlobLen)}

NoOptions == [compress |-> FALSE, encrypt |-> FALSE, password |-> ""]

\* the controller after create("f") and one addVirtualFile per path
RECURSIVE Built(_, _)
Built(S, paths) ==
    IF Len(paths) = 0 THEN S
    ELSE Built(addVirtualFile(S, paths[1], <<104, 105>>, NoOptions).S, Tail(paths))

Fresh ==
    [filepath |-> "", header |-> GlobalHeader, entries |-> <<>>, archiveData |-> <<>>,
     modified |-> FALSE, loaded |-> FALSE, errorMessage |-> "", crypto |-> CryptoEngine,
     fs |-> [f \in FileNames |-> NoFile], rng |-> 0]

InitGlob ==
    \E paths \in GlobLists :
        LET S == Built(create(Fresh, "f"), paths)
        IN  /\ m_filepath = S.filepath
            /\ m_header = S.header
            /\ m_entries = S.entries
            /\ m_archiveData = S.archiveData
            /\ m_modified = S.modified
            /\ m_loaded = S.loaded
            /\ m_errorMessage = S.errorMessage
            /\ m_crypto = S.crypto
            /\ fs = S.fs
            /\ rng = S.rng
            /\ lastCall = Call("addVirtual", "", "", paths[Len(paths)], TRUE, FALSE,
                               <<FALSE, FALSE>>)
            /\ lastOpen = [pw |-> "", ok |-> FALSE]
            /\ repeated = (Len(paths) > 1)
            /\ dirty = TRUE
            /\ nops = 1 + Len(paths)

NextGlob ==
    /\ lastCall.op = "addVirtual"
    /\ \E pattern \in GlobPatterns : FindEntries(pattern)

SpecGlob == InitGlob /\ [][NextGlob]_vars

(***************************************************************************)
(* The header codec on its own: a 64-byte buffer is decoded by             *)
(* GlobalHeader::deserialize and the result encoded by                     *)
(* GlobalHeader::serialize                                                 *)
(***************************************************************************)
Fill(v, n) == [i \in 1..n |-> Byte(v)]

\* 64-byte buffers: signature, version, flags (reserved bits too), file
\* count, salt, IV and the last 4 bytes
HeaderBuffers ==
    {sig \o BE(v, 2) \o BE(f, 2) \o BE(n, 4)
         \o Fill(s, SALT_SIZE) \o Fill(i, IV_SIZE) \o Fill(r, 4) :
        sig \in {VARC_SIGNATURE, Fill(0, 4)},
        v \in {3, 258},
        f \in {0, 1, 32773, 65535},
        n \in {0, 1, 16909060},
        s \in {0, 1}, i \in {0, 2}, r \in {0, 9}}

InitCodec ==
    /\ m_filepath = ""
    /\ m_header = GlobalHeader
    /\ m_entries = <<>>
    /\ m_archiveData \in HeaderBuffers
    /\ m_modified = FALSE
    /\ m_loaded = FALSE
    /\ m_errorMessage = ""
    /\ m_crypto = CryptoEngine
    /\ fs = [f \in FileNames |-> NoFile]
    /\ rng = 0
    /\ lastCall = Call("new", "", "", <<>>, TRUE, FALSE, <<>>)
    /\ lastOpen = [pw |-> "", ok |-> FALSE]
    /\ repeated = FALSE
    /\ dirty = FALSE
    /\ nops = 0

Deserialize ==
    /\ lastCall.op = "new"
    /\ \E g \in HeapBytes :
          LET D == GlobalHeader_deserialize(m_header, m_archiveData, g)
          IN  Step([Cur EXCEPT !.header = D.header],
                   Call("deserialize", "", "", <<>>, D.ok, FALSE, <<>>), dirty)

Serialize ==
    /\ lastCall.op = "deserialize"
    /\ lastCall.ok
    /\ Step(Cur, Call("serialize", "", "", <<>>, TRUE, FALSE,
                      GlobalHeader_serialize(m_header)), dirty)

NextCodec == Deserialize \/ Serialize

SpecCodec == InitCodec /\ [][NextCodec]_vars

(***************************************************************************)
(* A client that adds an entry whose path does not fit the 2-byte path     *)
(* length of the entry header, saves the archive and opens it again        *)
(***************************************************************************)
\* a path of 65536 bytes, one more than two bytes can count
LongPath == [i \in 1..65536 |-> 97]

NextLongPath ==
    /\ nops < MaxScenarioOps
    /\ \/ lastCall.op = "new" /\ Create("f")
       \/ /\ lastCall.op = "create"
          /\ \E path \in {<<97>>, LongPath}, data \in DataSet, options \in FileOptions :
                /\ path = LongPath => ~options.encrypt
                /\ AddVirtual(path, data, options)
       \/ /\ lastCall.op = "addVirtual"
          /\ Len(m_entries) = 1
          /\ m_entries[1].path # LongPath
          /\ \E data \in DataSet, options \in ScriptOptions :
                AddVirtual(<<98>>, data, options)
       \/ lastCall.op = "addVirtual" /\ Save("f")
       \/ lastCall.op = "save" /\ \E pw \in {"pw", "wrong"} : Open("f", pw)
       \/ /\ lastCall.op = "open"
          /\ \E path \in {<<>>, <<97>>, <<98>>} : GetEntryData(path)

SpecLongPath == Init /\ [][NextLongPath]_vars

(***************************************************************************)
(* open on files that end early or whose size fields were changed: the     *)
(* archive of two plain entries "a" and "b", cut at every length, or with  *)
(* the file count, a path length or a stored size overwritten              *)
(***************************************************************************)
BaseArchive == save(Built(create(Fresh, "f"), <<<<97>>, <<98>>>>), "f").S.fs["f"].bytes

\* buf with the bytes at offset at.. replaced
Patch(buf, at, bytes) ==
    [i \in 1..Len(buf) |->
        IF i > at /\ i <= at + Len(bytes) THEN bytes[i - at] ELSE buf[i]]

\* stored sizes of 8 bytes: 2^64 - 1, 2^64 - 91, 2^40, 2^63 - 1 and 3
WideSizes ==
    {Fill(255, 8),
     Fill(255, 7) \o Fill(165, 1),
     Fill(0, 2) \o Fill(1, 1) \o Fill(0, 5),
     Fill(127, 1) \o Fill(255, 7),
     Fill(0, 7) \o Fill(3, 1)}

\* offset of the first and of the second record of BaseArchive
FirstRecord == GLOBAL_HEADER_SIZE
SecondRecord == GLOBAL_HEADER_SIZE + ENTRY_HEADER_SIZE + 1 + 2 + CHECKSUM_SIZE

ShortBuffers ==
    {SubSeq(BaseArchive, 1, n) : n \in 0..Len(BaseArchive)}
    \cup {Patch(BaseArchive, 8, BE(n, 4)) : n \in {1, 3, 2147483647}}
    \cup {Patch(BaseArchive, FirstRecord, BE(n, 2)) : n \in {200, 65535}}
    \cup {Patch(BaseArchive, SecondRecord, BE(n, 2)) : n \in {0, 34, 200, 65535}}
    \cup {Patch(BaseArchive, r + 10, w) :
            r \in {FirstRecord, SecondRecord}, w \in WideSizes}

InitShort ==
    /\ m_filepath = ""
    /\ m_header = GlobalHeader
    /\ m_entries = <<>>
    /\ m_archiveData = <<>>
    /\ m_modified = FALSE
    /\ m_loaded = FALSE
    /\ m_errorMessage = ""
    /\ m_crypto = CryptoEngine
    /\ \E bytes \in ShortBuffers :
          fs = [f \in FileNames |->
                  IF f = "f"
                  THEN [exists |-> TRUE, bytes |-> bytes, count |-> 2,
                        tampered |-> bytes # BaseArchive]
                  ELSE NoFile]
    /\ rng = 0
    /\ lastCall = Call("new", "", "", <<>>, TRUE, FALSE, <<>>)
    /\ lastOpen = [pw |-> "", ok |-> FALSE]
    /\ repeated = FALSE
    /\ dirty = FALSE
    /\ nops = 0

NextShort ==
    /\ lastCall.op = "new"
    /\ \E pw \in LockPasswords : Open("f", pw)

SpecShort == InitShort /\ [][NextShort]_vars

(***************************************************************************)
(* A client that hands its own entries to addEntry and saves the archive   *)
(***************************************************************************)
NextEntry ==
    /\ nops < MaxScenarioOps
    /\ \/ lastCall.op = "new" /\ Create("f")
       \/ /\ lastCall.op \in {"create", "addEntry", "addVirtual"}
          /\ \E entry \in CallerEntries, options \in ScriptOptions :
                AddEntry(entry, options)
       \/ /\ lastCall.op \in {"create", "addEntry", "addVirtual"}
          /\ \E path \in PathSet, data \in DataSet, options \in FileOptions :
                AddVirtual(path, data, options)
       \/ lastCall.op \in {"addEntry", "addVirtual"} /\ Save("f")

SpecEntry == Init /\ [][NextEntry]_vars

(***************************************************************************)
(* A client that builds an archive and extracts it into a directory        *)
(***************************************************************************)
NextExtract ==
    /\ nops < MaxScenarioOps
    /\ \/ lastCall.op = "new" /\ Create("f")
       \/ /\ lastCall.op \in {"create", "addVirtual"}
          /\ \E path \in PathSet, data \in DataSet, options \in FileOptions :
                AddVirtual(path, data, options)
       \/ /\ lastCall.op = "addVirtual"
          /\ \E dir \in OutputDirs, pw \in LockPasswords, overwrite \in BOOLEAN :
                ExtractAll(dir, pw, [overwrite |-> overwrite])

SpecExtract == Init /\ [][NextExtract]_vars

(***************************************************************************)
(* A client that opens an archive written by another writer and saves it   *)
(* unchanged: the archive of two plain entries "a" and "b", with the        *)
(* original size of each record set by its writer                          *)
(***************************************************************************)
ReemitBuffers ==
    {Patch(Patch(BaseArchive, FirstRecord + 2, BE(n, 8)), SecondRecord + 2, BE(k, 8)) :
        n \in {0, 2, 5, 1000, 65536}, k \in {0, 2, 5, 1000, 65536}}

InitReemit ==
    /\ m_filepath = ""
    /\ m_header = GlobalHeader
    /\ m_entries = <<>>
    /\ m_archiveData = <<>>
    /\ m_modified = FALSE
    /\ m_loaded = FALSE
    /\ m_errorMessage = ""
    /\ m_crypto = CryptoEngine
    /\ \E bytes \in ReemitBuffers :
          fs = [f \in FileNames |->
                  IF f = "f"
                  THEN [exists |-> TRUE, bytes |-> bytes, count |-> 2,
                        tampered |-> bytes # BaseArchive]
                  ELSE NoFile]
    /\ rng = 0
    /\ lastCall = Call("new", "", "", <<>>, TRUE, FALSE, <<>>)
    /\ lastOpen = [pw |-> "", ok |-> FALSE]
    /\ repeated = FALSE
    /\ dirty = FALSE
    /\ nops = 0

NextReemit ==
    \/ lastCall.op = "new" /\ \E pw \in LockPasswords : Open("f", pw)
    \/ lastCall.op = "open" /\ lastCall.ok /\ Save("f")

SpecReemit == InitReemit /\ [][NextReemit]_vars

(***************************************************************************)
(* Properties                                                              *)
(***************************************************************************)
\* the bytes an entry's stored data was made from: the processing pipeline
\* (encrypt, then compress) undone, outermost layer first
RECURSIVE Unwrap(_)
Unwrap(cells) ==
    IF IsWhole(cells) /\ cells[1][1] = "z" THEN Unwrap(Unpack(cells[1][3]))
    ELSE IF IsWhole(cells) /\ cells[1][1] = "e" THEN Unwrap(Unpack(cells[1][3].plain))
    ELSE cells

\* the passwords of the keys under which stored data was encrypted
RECURSIVE KeyPasswords(_)
KeyPasswords(cells) ==
    IF IsWhole(cells) /\ cells[1][1] = "z" THEN KeyPasswords(Unpack(cells[1][3]))
    ELSE IF IsWhole(cells) /\ cells[1][1] = "e"
         THEN {cells[1][3].key.pw} \cup KeyPasswords(Unpack(cells[1][3].plain))
    ELSE {}

EndsWith(str, suffix) ==
    /\ Len(str) >= Len(suffix)
    /\ SubSeq(str, Len(str) - Len(suffix) + 1, Len(str)) = suffix

\* the header of a file on disk carries the ENCRYPTED flag
FileEncrypted(f) ==
    /\ fs[f].exists
    /\ Len(fs[f].bytes) >= GLOBAL_HEADER_SIZE
    /\ HasBit(BEValue(Slice(fs[f].bytes, 6, 2)), ARCHIVE_ENCRYPTED)

\* C1 (round trip): after create, add_virtual(P, B, options with password
\* pw), save(f) and open(f, pw), the bytes returned for P by getEntryData
\* are B, the bytes the entry was made from.
C1_RoundTrip ==
    (/\ lastCall.op = "getEntryData"
     /\ lastOpen.ok /\ lastOpen.pw = "pw"
     /\ findEntry(m_entries, lastCall.path) # 0)
        => lastCall.out = Unwrap(m_entries[findEntry(m_entries, lastCall.path)].data)

\* C2 (checksum invariance): in every reachable state the checksum of each
\* entry is the SHA-256 of the entry's original bytes, whatever the
\* compress/encrypt options and whether it was added or parsed from a file.
C2_ChecksumOfOriginal ==
    \A i \in 1..Len(m_entries) :
        m_entries[i].checksum = sha256(Unwrap(m_entries[i].data))

\* C3 (file count): after adds and removes, save(f) and a successful
\* open(f), the header's fileCount is the length of the entry list, which
\* is the number of entries that were in memory at the save.
C3_FileCount ==
    (lastCall.op = "open" /\ lastCall.ok)
        => /\ m_header.fileCount = Len(m_entries)
           /\ Len(m_entries) = fs[lastCall.file].count

\* reopened after three adds/removes that left one entry
C3_Witness ==
    /\ lastCall.op = "open" /\ lastCall.ok
    /\ nops = 6
    /\ Len(m_entries) = 1
    /\ m_header.fileCount = 1

\* C4 (wrong password): open(f, pw') never succeeds on an archive whose
\* header is ENCRYPTED and whose entries were encrypted under another
\* password.
C4_WrongPassword ==
    ~(/\ lastCall.op = "open" /\ lastCall.ok
      /\ FileEncrypted(lastCall.file)
      /\ \E i \in 1..Len(m_entries) :
            \E p \in KeyPasswords(m_entries[i].data) : p # lastCall.pw)

\* C5 (password required): open(f, "") on a file whose header has the
\* ENCRYPTED flag fails, sets the error message, and leaves the archive
\* neither open nor modified.
C5_PasswordRequired ==
    (lastCall.op = "open" /\ lastCall.pw = "" /\ FileEncrypted(lastCall.file))
        => /\ ~lastCall.ok
           /\ m_errorMessage # ""
           /\ ~m_loaded
           /\ ~m_modified

C5_Witness ==
    /\ lastCall.op = "open" /\ lastCall.pw = ""
    /\ FileEncrypted(lastCall.file)
    /\ fs[lastCall.file].count > 0
    /\ ~lastCall.ok

\* C6 (verify detects corruption): when one byte of the stored data of an
\* entry of a saved archive has been changed, open followed by verify
\* returns false.
C6_VerifyDetectsTamper ==
    (/\ lastCall.op = "verify"
     /\ lastOpen.ok
     /\ fs[m_filepath].tampered)
        => ~lastCall.ok

\* C7 (idempotent verify): a verify call leaves the entry list, the header
\* and the modified flag unchanged, and returns what the verify call just
\* before it returned for the same password.
C7_VerifyFrame ==
    [][(lastCall'.op = "verify" /\ nops' = nops + 1)
          => /\ m_entries' = m_entries
             /\ m_header' = m_header
             /\ m_modified' = m_modified
             /\ (lastCall.op = "verify" /\ lastCall.pw = lastCall'.pw)
                    => lastCall'.ok = lastCall.ok]_vars

\* verify called twice with the same password on an archive opened from a
\* file, encrypted and not empty
C7_Witness ==
    /\ lastCall.op = "verify" /\ repeated
    /\ lastCall.ok
    /\ lastOpen.ok
    /\ m_loaded
    /\ Len(m_entries) > 0
    /\ GlobalHeader_isEncrypted(m_header)

\* C8 (glob): for the glob "*.txt" findEntries returns exactly the entries
\* whose paths end in ".txt", in entry order.
C8_StarDotTxt ==
    (lastCall.op = "findEntries" /\ lastCall.path = StarDotTxt)
        => LET ending == SelectSeq(m_entries, LAMBDA e : EndsWith(e.path, DotTxt))
           IN  lastCall.out = [i \in 1..Len(ending) |-> ending[i].path]

\* C9 (create): after create(path), called in any state, the archive is
\* open and modified, the entry list is empty, the header is the default
\* header and the current path is path.
C9_Create ==
    lastCall.op = "create"
        => /\ m_loaded
           /\ m_modified
           /\ m_entries = <<>>
           /\ m_header.signature = VARC_SIGNATURE
           /\ m_header.version = 3
           /\ m_header.flags = 0
           /\ m_header.fileCount = 0
           /\ m_header.salt = Zeros(SALT_SIZE)
           /\ m_header.iv = Zeros(IV_SIZE)
           /\ m_filepath = lastCall.file

\* create called on a controller that held a saved, encrypted archive
C9_Witness ==
    /\ lastCall.op = "create"
    /\ fs["f"].exists
    /\ fs["f"].count > 0
    /\ FileEncrypted("f")

C11_Close ==
    [][(lastCall'.op = "close" /\ nops' = nops + 1)
          => /\ ~m_loaded'
             /\ ~m_modified'
             /\ m_entries' = <<>>
             /\ m_header' = GlobalHeader
             /\ m_filepath' = ""
             /\ (m_modified /\ m_filepath # "") => fs' = save(Cur, "").S.fs
             /\ ~m_modified => fs' = fs]_vars

\* close has written an archive with an entry that no save call had written
C11_Witness ==
    /\ lastCall.op = "close"
    /\ ~m_loaded
    /\ fs["f"].exists
    /\ fs["f"].count > 0
    /\ nops = 3

\* the ENCRYPTED flags of the entries, in entry order
EntryEncrypted(entries) ==
    [i \in 1..Len(entries) |-> HasBit(entries[i].flags, ENTRY_ENCRYPTED)]

\* C12 (lock): a lock call made while the header's ENCRYPTED flag is set
\* fails and leaves the header's salt, IV and flags, the entries' flags and
\* the modified flag unchanged; a lock call with a non-empty password made
\* while neither the header nor any entry is ENCRYPTED succeeds, sets the
\* header's ENCRYPTED flag, writes a fresh salt and IV, sets ENCRYPTED on
\* every entry and sets the modified flag.
C12_LockRequiresPlain ==
    [][(lastCall'.op = "lock" /\ nops' = nops + 1)
          => /\ GlobalHeader_isEncrypted(m_header)
                    => /\ ~lastCall'.ok
                       /\ m_header' = m_header
                       /\ [i \in 1..Len(m_entries') |-> m_entries'[i].flags]
                              = [i \in 1..Len(m_entries) |-> m_entries[i].flags]
                       /\ m_modified' = m_modified
             /\ (/\ ~GlobalHeader_isEncrypted(m_header)
                 /\ \A i \in 1..Len(m_entries) : ~EntryEncrypted(m_entries)[i]
                 /\ lastCall'.pw # "")
                    => /\ lastCall'.ok
                       /\ GlobalHeader_isEncrypted(m_header')
                       /\ m_header'.salt \notin {m_header.salt, Zeros(SALT_SIZE)}
                       /\ m_header'.iv \notin {m_header.iv, Zeros(IV_SIZE)}
                       /\ \A i \in 1..Len(m_entries') : EntryEncrypted(m_entries')[i]
                       /\ m_modified']_vars

\* C13 (unlock): an unlock call fails when the header's ENCRYPTED flag is
\* clear or the password is empty (key derivation fails); a failed call
\* leaves the header's flags, the entries' flags and the modified flag
\* unchanged; a successful call leaves the header's ENCRYPTED flag and every
\* entry's ENCRYPTED flag clear and the modified flag set.
C13_Unlock ==
    [][(lastCall'.op = "unlock" /\ nops' = nops + 1)
          => /\ (~GlobalHeader_isEncrypted(m_header) \/ lastCall'.pw = "")
                    => ~lastCall'.ok
             /\ ~lastCall'.ok
                    => /\ m_header'.flags = m_header.flags
                       /\ [i \in 1..Len(m_entries') |-> m_entries'[i].flags]
                              = [i \in 1..Len(m_entries) |-> m_entries[i].flags]
                       /\ m_modified' = m_modified
             /\ lastCall'.ok
                    => /\ ~GlobalHeader_isEncrypted(m_header')
                       /\ \A i \in 1..Len(m_entries') : ~EntryEncrypted(m_entries')[i]
                       /\ m_modified']_vars

\* unlock("") has failed on an encrypted archive that holds an encrypted entry
C13_Witness ==
    /\ lastCall.op = "unlock"
    /\ lastCall.pw = ""
    /\ ~lastCall.ok
    /\ GlobalHeader_isEncrypted(m_header)
    /\ Len(m_entries) > 0
    /\ EntryEncrypted(m_entries)[1]

\* C14 (salt of a plain archive): in every file written by save (or by the
\* save of close), if the header's ENCRYPTED flag is clear then the 32 salt
\* bytes of the header are all zero.
C14_PlainSaltZero ==
    \A f \in FileNames :
        (fs[f].exists /\ ~FileEncrypted(f))
            => Slice(fs[f].bytes, 12, SALT_SIZE) = Zeros(SALT_SIZE)

\* C17 (encryption without a password): an add call with encrypt set and an
\* empty password fails, sets the error message and appends no entry; it
\* never reports success with the bytes stored unencrypted.
C17_EncryptNeedsPassword ==
    [][(/\ lastCall'.op \in {"addVirtual", "addFile"} /\ nops' = nops + 1
        /\ lastCall'.out[2] /\ lastCall'.pw = "")
          => /\ ~lastCall'.ok
             /\ m_errorMessage' # ""
             /\ m_entries' = m_entries]_vars

\* the salts of the keys under which stored data was encrypted
RECURSIVE KeySalts(_)
KeySalts(cells) ==
    IF IsWhole(cells) /\ cells[1][1] = "z" THEN KeySalts(Unpack(cells[1][3]))
    ELSE IF IsWhole(cells) /\ cells[1][1] = "e"
         THEN {cells[1][3].key.salt} \cup KeySalts(Unpack(cells[1][3].plain))
    ELSE {}

\* C18 (crypto state across archives): whatever was done with the
\* controller before, when create(p) is followed by a successful add with
\* encrypt set and a non-empty password, the header's ENCRYPTED flag is set
\* and the header's salt is the non-zero salt from which the key that
\* encrypted the entry was derived.
C18_FreshKeyPerArchive ==
    [][(/\ lastCall.op = "create"
        /\ lastCall'.op \in {"addVirtual", "addFile"} /\ nops' = nops + 1
        /\ lastCall'.ok /\ lastCall'.out[2] /\ lastCall'.pw # "")
          => /\ GlobalHeader_isEncrypted(m_header')
             /\ m_header'.salt # Zeros(SALT_SIZE)
             /\ KeySalts(m_entries'[1].data) = {Pack(m_header'.salt)}]_vars

\* C19 (failures are return values): no call ends by an exception that
\* escapes to the caller; an addFile call with a path that cannot be opened
\* and a changePassword call with an empty old or new password return false
\* with the error message set.
C19_NoExceptionEscapes ==
    /\ ~lastCall.threw
    /\ (lastCall.op \in {"addFile", "changePassword"} /\ ~lastCall.ok)
            => m_errorMessage # ""

\* C15 (header codec): the encoded header is exactly 64 bytes, and for a
\* 64-byte buffer that starts with the signature, encoding the decoded
\* header gives the buffer back byte for byte.
C15_HeaderRoundTrip ==
    lastCall.op = "serialize"
        => /\ Len(lastCall.out) = GLOBAL_HEADER_SIZE
           /\ lastCall.out = m_archiveData

\* C16 (path length): an add call with a path longer than 65535 bytes is
\* rejected and appends no entry, so that no entry in memory, and so no
\* record written by save, has a path that the 2-byte path length cannot
\* count.
C16_LongPathRejected ==
    /\ (lastCall.op \in {"addVirtual", "addFile"} /\ Len(lastCall.path) > 65535)
            => ~lastCall.ok
    /\ \A i \in 1..Len(m_entries) : Len(m_entries[i].path) <= 65535
    /\ (lastCall.op = "save" /\ lastCall.ok /\ Len(m_entries) > 0)
            => BEValue(Slice(fs[lastCall.file].bytes, GLOBAL_HEADER_SIZE, 2))
                  = Len(m_entries[1].path)

\* every one of the n records from record i at offset lies inside buf, by
\* exact arithmetic
RECURSIVE RecordsFit(_, _, _, _)
RecordsFit(buf, offset, i, n) ==
    \/ i >= n
    \/ /\ offset + ENTRY_HEADER_SIZE <= Len(buf)
       /\ LET eh == EntryHeader_deserialize(Slice(buf, offset, ENTRY_HEADER_SIZE))
              o2 == offset + ENTRY_HEADER_SIZE + eh.pathLength
          IN  /\ o2 <= Len(buf)
              /\ IsSmall(eh.compressedSize)
              /\ o2 + Small(eh.compressedSize) + CHECKSUM_SIZE <= Len(buf)
              /\ RecordsFit(buf, o2 + Small(eh.compressedSize) + CHECKSUM_SIZE,
                            i + 1, n)

\* C20 (truncation): when the buffer read from the file ends before the
\* entry header, the path, the stored bytes or the checksum of one of the
\* file_count records, whatever the sizes in the headers, open fails by its
\* return value: no size makes the bounds tests pass by wrap-around and the
\* call read outside the buffer or end by an exception.
C20_Truncation ==
    (/\ lastCall.op = "open"
     /\ fs[lastCall.file].exists
     /\ Len(fs[lastCall.file].bytes) >= GLOBAL_HEADER_SIZE
     /\ Slice(fs[lastCall.file].bytes, 0, 4) = VARC_SIGNATURE
     /\ ~RecordsFit(fs[lastCall.file].bytes, GLOBAL_HEADER_SIZE, 0,
                    BEValue(Slice(fs[lastCall.file].bytes, 8, 4))))
        => /\ ~lastCall.ok
           /\ ~lastCall.threw
           /\ ~m_loaded

\* C21 (stored size): every entry of the entry list, whichever add call or
\* open made it, has compressedSize equal to the length of its data, and a
\* successful save writes a file of 64 bytes plus, for every entry, 26 +
\* path length + data length + 32 bytes.
C21_StoredSizeIsDataLength ==
    /\ \A i \in 1..Len(m_entries) : m_entries[i].compressedSize = Len(m_entries[i].data)
    /\ (lastCall.op = "save" /\ lastCall.ok)
            => Len(fs[m_filepath].bytes) = GLOBAL_HEADER_SIZE + SumData(m_entries)

\* C22 (remove_entry): a successful removeEntry(p) leaves no entry with path
\* p, also when several entries had that path, keeps the other entries in
\* their order and sets the modified flag; when no entry has path p the call
\* fails and leaves the entry list and the modified flag unchanged.
C22_RemoveEntry ==
    [][(lastCall'.op = "removeEntry" /\ nops' = nops + 1)
          => /\ lastCall'.ok
                    => /\ findEntry(m_entries', lastCall'.path) = 0
                       /\ m_entries' = SelectSeq(m_entries,
                                                 LAMBDA e : e.path # lastCall'.path)
                       /\ m_modified'
             /\ findEntry(m_entries, lastCall'.path) = 0
                    => /\ ~lastCall'.ok
                       /\ m_entries' = m_entries
                       /\ m_modified' = m_modified]_vars

\* C23 (no key after close): after close, and after create, which closes
\* first, the crypto engine of the controller is not initialised: no key
\* derived for an earlier archive is left to be used on a later one.
C23_NoKeyAfterClose ==
    lastCall.op \in {"close", "create"} => ~CryptoEngine_isInitialized(m_crypto)

\* C24 (overwrite): an extractAll call with overwrite = false leaves every
\* file that existed at an output path with the content it had.
C24_OverwriteRespected ==
    (lastCall.op = "extractAll" /\ ~lastCall.out[1])
        => \A p \in PathSet :
              lastCall.out[2][p].exists => lastCall.out[3][p] = lastCall.out[2][p]

\* C25 (original size): after a successful addVirtualFile(P, B, options) the
\* appended entry's original size is the length of B, whatever the compress
\* and encrypt options are.
C25_OriginalSizeIsInputLength ==
    (lastCall.op = "addVirtual" /\ lastCall.ok)
        => \A data \in DataSet :
              m_entries[Len(m_entries)].originalSize = Len(data)

\* C26 (one IV): after an add that encrypted its entry in an archive whose
\* header is ENCRYPTED, the IV in the header is the IV the controller caches
\* and encrypts with.
C26_HeaderIVIsCachedIV ==
    (/\ lastCall.op \in {"addVirtual", "addFile"} /\ lastCall.ok
     /\ lastCall.out[2] /\ lastCall.pw # ""
     /\ GlobalHeader_isEncrypted(m_header))
        => m_header.iv = m_crypto.iv

\* C27 (old password checked): a changePassword that succeeds was given the
\* password the cached key was derived from; any other call leaves the header
\* salt, the header IV, the cached key and Modified as they were.
C27_ChangePasswordVerifiesOld ==
    [][(lastCall'.op = "changePassword" /\ nops' = nops + 1)
          => /\ lastCall'.ok => lastCall'.pw = m_crypto.key.pw
             /\ ~lastCall'.ok => /\ m_header'.salt = m_header.salt
                                 /\ m_header'.iv = m_header.iv
                                 /\ m_crypto' = m_crypto
                                 /\ m_modified' = m_modified]_vars

\* C28 (header flag covers the entries): whenever an entry of an open archive
\* has its ENCRYPTED flag set, the header's ENCRYPTED flag is set.
C28_EncryptedEntryImpliesHeaderFlag ==
    (m_loaded /\ \E i \in 1..Len(m_entries) : EntryEncrypted(m_entries)[i])
        => GlobalHeader_isEncrypted(m_header)

\* C29 (closed controller): while the archive is not open, removeEntry,
\* removeEntries, clearEntries, lock, unlock, changePassword and setMetadata
\* do not set Modified, and a close writes no file.
C29_ClosedNeverModified ==
    [][(~m_loaded /\ nops' = nops + 1)
          => /\ lastCall'.op \in {"removeEntry", "removeEntries", "clearEntries",
                                  "lock", "unlock", "changePassword", "setMetadata"}
                    => (m_modified' => m_modified)
             /\ lastCall'.op = "close" => fs' = fs]_vars

\* C30 (re-emit): a save that directly follows a successful open writes the
\* entry records of the file that was opened, byte for byte.
C30_ReemitIdentity ==
    [][(/\ lastCall.op = "open" /\ lastCall.ok
        /\ lastCall'.op = "save" /\ lastCall'.ok)
          => SubSeq(fs'["f"].bytes, GLOBAL_HEADER_SIZE + 1, Len(fs'["f"].bytes))
                = SubSeq(fs["f"].bytes, GLOBAL_HEADER_SIZE + 1, Len(fs["f"].bytes))]_vars

====
